---- MODULE Spec2Model ----
(***************************************************************************)
(* The weekly issue report script (src/main.py): collect Jira issues per   *)
(* keyword into one text corpus, summarise the corpus with a Gemini model, *)
(* post the summary to a KakaoWork webhook.                                *)
(*                                                                         *)
(* Text is modelled as text: a line of the corpus is a string, built by    *)
(* concatenation as the f-strings of the source build it. combined_data is *)
(* the sequence of the lines of the Python string (the text between two    *)
(* line breaks); the Korean literals of the source are written in ASCII.   *)
(* A Python value that may be None is a record [isNone, val].              *)
(***************************************************************************)
EXTENDS Naturals, Sequences, FiniteSets, TLC

VARIABLES
    pc,               \* position of the script
    kw,               \* get_jira_issues_by_keyword: index of `keyword` in TARGET_KEYWORDS
    combined_data,    \* get_jira_issues_by_keyword: the accumulated corpus, line by line
    found_any_issue,  \* get_jira_issues_by_keyword: the flag
    issues,           \* get_jira_issues_by_keyword: the result of the current search
    i,                \* get_jira_issues_by_keyword: index of `issue` in issues
    description,      \* get_jira_issues_by_keyword: the local of line 45
    raw_data,         \* __main__: what get_jira_issues_by_keyword returned
    model_name,       \* summarize_with_gemini: what get_best_gemini_model returned
    summary,          \* __main__: what summarize_with_gemini returned
    message,          \* send_kakaowork_alert: its argument
    inflight,         \* the external calls issued and not yet returned
    calls,            \* the external calls and their outcomes, in order
    returned,         \* what each search_issues call returned, in order
    prompts,          \* the corpora handed to generate_content, in order
    posted,           \* the messages POSTed to the webhook, in order
    catalog           \* SpecSelect: the listing list_models yields (Spec draws it at the call)

vars == <<pc, kw, combined_data, found_any_issue, issues, i, description, raw_data,
          model_name, summary, message, inflight, calls, returned, prompts, posted,
          catalog>>

(***************************************************************************)
(* Bounds of the model.                                                    *)
(***************************************************************************)
\* the longest result a search returns in the model
MaxHits == 2
\* the longest model listing list_models yields in the model
MaxModels == 2

(***************************************************************************)
(* Python values.                                                          *)
(***************************************************************************)
NoneStr == [isNone |-> TRUE, val |-> ""]
NoneText == [isNone |-> TRUE, val |-> <<>>]
Some(v) == [isNone |-> FALSE, val |-> v]

\* Python truth of an optional string: None and "" are false
Truthy(x) == ~x.isNone /\ Len(x.val) > 0

Min(a, b) == IF a <= b THEN a ELSE b

\* s[:n]
Slice(s, n) == SubSeq(s, 1, Min(n, Len(s)))

\* pat in s
Contains(pat, s) ==
    \E k \in 1..(Len(s) + 1) :
        /\ k + Len(pat) - 1 <= Len(s)
        /\ SubSeq(s, k, k + Len(pat) - 1) = pat

RECURSIVE Repeat(_, _)
Repeat(c, n) == IF n = 0 THEN "" ELSE c \o Repeat(c, n - 1)

(***************************************************************************)
(* Configuration and the tracker's data.                                   *)
(***************************************************************************)
TARGET_KEYWORDS == <<"604", "624", "704">>

\* maxResults of search_issues
MaxResults == 10

\* the character budget of line 45
DescBudget == 150

Issue(key, title, status, assignee, body, updated) ==
    [key |-> key, summary |-> title, status |-> status, assignee |-> assignee,
     description |-> body, updated |-> updated]

\* an issue whose body is over the budget
IssueLongBody ==
    Issue("OPS-1", "604 login fails", "Open", Some("Kim"),
          Some(Repeat("x", DescBudget + 1)), "2024-05-03T10:15:00.000+0900")

\* an issue without assignee and without body
IssueBare ==
    Issue("OPS-2", "624 sync is slow", "Done", NoneStr,
          NoneStr, "2024-05-02T09:00:00.000+0900")

\* an issue whose body is under the budget
IssueShortBody ==
    Issue("OPS-3", "704 export", "In Progress", Some("Lee"),
          Some("short body"), "2024-05-01T18:30:00.000+0900")

IssuePool == {IssueLongBody, IssueBare, IssueShortBody}

RECURSIVE SeqsNoRepeat(_, _)
SeqsNoRepeat(S, n) ==
    IF n = 0 THEN {<<>>}
    ELSE LET shorter == SeqsNoRepeat(S, n - 1)
         IN  shorter \cup
             UNION { { Append(s, x) : x \in S \ { s[k] : k \in 1..Len(s) } } :
                     s \in { t \in shorter : Len(t) = n - 1 } }

\* what one search can return: at most maxResults issues, none twice
SearchResults == SeqsNoRepeat(IssuePool, Min(MaxHits, MaxResults))

(***************************************************************************)
(* get_jira_issues_by_keyword: the text it renders.                        *)
(***************************************************************************)
\* a marker that does not name its keyword
none_line_unnamed(keyword) == "=== no recent issues ==="

\* line 34, without its two line breaks
none_line(keyword) == "=== [" \o keyword \o "] no recent issues ==="

\* a header that states the requested maximum, not the count
header_line_cap(keyword, found) ==
    "=== [" \o keyword \o "] issues (" \o ToString(MaxResults) \o ") ==="

\* line 38, without its two line breaks
header_line(keyword, found) ==
    "=== [" \o keyword \o "] issues (" \o ToString(Len(found)) \o ") ==="

\* line 43
assignee_of(issue) ==
    IF issue.assignee.isNone THEN "no assignee" ELSE issue.assignee.val

\* line 44
desc_raw_of(issue) ==
    IF Truthy(issue.description) THEN issue.description.val ELSE "no content"

\* line 45
description_of(issue) == Slice(desc_raw_of(issue), DescBudget) \o "..."

\* line 46
updated_date_of(issue) == Slice(issue.updated, 10)

\* line 48, without its line break
issue_line(issue) ==
    "- [" \o issue.key \o "] " \o issue.summary \o " (status: " \o issue.status
    \o " | assignee: " \o assignee_of(issue) \o " | updated: "
    \o updated_date_of(issue) \o ")"

\* the corpus returned whatever the flag
collect_return_always(found, data) == Some(data)

\* line 50
collect_return(found, data) == IF found THEN Some(data) ELSE NoneText

\* the sections collected so far returned on an error
except_return_partial(data) == Some(data)

\* lines 52-54
except_return(data) == NoneText

\* the loop left after the first issue
issues_exhausted_early(k, found) == k > 1

\* for issue in issues: the loop is over when every issue was taken
issues_exhausted(k, found) == k > Len(found)

(***************************************************************************)
(* get_best_gemini_model.                                                  *)
(***************************************************************************)
Model(name, methods) == [name |-> name, supported_generation_methods |-> methods]

ModelPool ==
    { Model("models/gemini-1.5-flash", {"generateContent", "countTokens"}),
      Model("models/gemini-1.5-flash-8b", {"generateContent", "countTokens"}),
      Model("models/gemini-1.5-pro", {"generateContent", "countTokens"}),
      Model("models/gemini-pro", {"generateContent", "countTokens"}),
      Model("models/gemini-2.0-flash-exp", {"generateContent"}),
      Model("models/embedding-001", {"embedContent"}) }

\* what list_models can do: yield some models and end, or yield some and raise
Listings ==
    { [models |-> ms, raises |-> r] :
          ms \in SeqsNoRepeat(ModelPool, MaxModels), r \in BOOLEAN }

\* line 88
DefaultModel == "models/gemini-pro"

\* lines 62-65
RECURSIVE available_models(_)
available_models(models) ==
    IF models = <<>> THEN <<>>
    ELSE LET m == Head(models)
         IN  (IF "generateContent" \in m.supported_generation_methods
                 THEN <<m.name>> ELSE <<>>)
             \o available_models(Tail(models))

\* one loop of lines 70-78: the first name the pattern is in, None when the loop
\* falls through
RECURSIVE first_with(_, _)
first_with(pat, names) ==
    IF names = <<>> THEN NoneStr
    ELSE IF Contains(pat, Head(names)) THEN Some(Head(names))
    ELSE first_with(pat, Tail(names))

\* the 1.5-pro models preferred to the 1.5-flash models
pick_model_pro_first(names) ==
    IF ~first_with("gemini-1.5-pro", names).isNone
        THEN first_with("gemini-1.5-pro", names)
    ELSE IF ~first_with("gemini-1.5-flash", names).isNone
        THEN first_with("gemini-1.5-flash", names)
    ELSE IF ~first_with("gemini-pro", names).isNone
        THEN first_with("gemini-pro", names)
    ELSE IF names # <<>> THEN Some(names[1])
    ELSE NoneStr

\* lines 69-84
pick_model(names) ==
    IF ~first_with("gemini-1.5-flash", names).isNone
        THEN first_with("gemini-1.5-flash", names)
    ELSE IF ~first_with("gemini-1.5-pro", names).isNone
        THEN first_with("gemini-1.5-pro", names)
    ELSE IF ~first_with("gemini-pro", names).isNone
        THEN first_with("gemini-pro", names)
    ELSE IF names # <<>> THEN Some(names[1])
    ELSE NoneStr

\* lines 56-88
get_best_gemini_model(listing) ==
    IF listing.raises THEN Some(DefaultModel)
    ELSE pick_model(available_models(listing.models))

(***************************************************************************)
(* The other collaborators' answers.                                       *)
(***************************************************************************)
\* response.text of generate_content: an empty text or a report
ResponseTexts == {"", "## weekly report"}

\* line 191
NoDataNotice == "no recent issues were found with the configured keywords"

\* every return value summarised
main_summarizes_always(data) == TRUE

\* __main__, line 182: summarise only a corpus
main_summarizes(data) == Truthy(data)

\* __main__, line 186: notify only of a summary
main_notifies(text) == Truthy(text)

\* the error text returned as the summary
generate_except_return_text == Some("summary failed")

\* summarize_with_gemini, lines 124-126
generate_except_return == NoneStr

\* send_kakaowork_alert, lines 130-131
alert_posts(text) == Len(text) > 0

(***************************************************************************)
(* The script, step by step.                                               *)
(***************************************************************************)
NoCatalog == [models |-> <<>>, raises |-> FALSE]

Init ==
    /\ pc = "start"
    /\ kw = 1
    /\ combined_data = <<>>
    /\ found_any_issue = FALSE
    /\ issues = <<>>
    /\ i = 1
    /\ description = ""
    /\ raw_data = NoneText
    /\ model_name = NoneStr
    /\ summary = NoneStr
    /\ message = ""
    /\ inflight = {}
    /\ calls = <<>>
    /\ returned = <<>>
    /\ prompts = <<>>
    /\ posted = <<>>
    /\ catalog = NoCatalog

collectVars == <<kw, combined_data, found_any_issue, issues, i, description, returned>>
tailVars == <<model_name, summary, message, prompts, posted>>

\* line 24: JIRA(...) is called
Connect ==
    /\ pc = "start"
    /\ pc' = "JIRA"
    /\ inflight' = inflight \cup {"JIRA"}
    /\ calls' = Append(calls, "JIRA")
    /\ UNCHANGED <<collectVars, tailVars, raw_data, catalog>>

\* line 24 returns a client; line 26 starts the loop
ConnectOk ==
    /\ pc = "JIRA"
    /\ pc' = "for_keyword"
    /\ inflight' = inflight \ {"JIRA"}
    /\ calls' = Append(calls, "JIRA:ok")
    /\ UNCHANGED <<collectVars, tailVars, raw_data, catalog>>

\* line 24 raises: lines 52-54
ConnectError ==
    /\ pc = "JIRA"
    /\ pc' = "main"
    /\ raw_data' = except_return(combined_data)
    /\ inflight' = inflight \ {"JIRA"}
    /\ calls' = Append(calls, "JIRA:error")
    /\ UNCHANGED <<collectVars, tailVars, catalog>>

\* lines 26-31: the next keyword's search is issued
SearchIssues ==
    /\ pc = "for_keyword"
    /\ kw <= Len(TARGET_KEYWORDS)
    /\ pc' = "search_issues"
    /\ inflight' = inflight \cup {"search_issues"}
    /\ calls' = Append(calls, "search_issues")
    /\ UNCHANGED <<collectVars, tailVars, raw_data, catalog>>

\* line 31 returns
SearchOk ==
    /\ pc = "search_issues"
    /\ \E found \in SearchResults :
           /\ issues' = found
           /\ returned' = Append(returned, found)
    /\ pc' = "if_issues"
    /\ inflight' = inflight \ {"search_issues"}
    /\ calls' = Append(calls, "search_issues:ok")
    /\ UNCHANGED <<kw, combined_data, found_any_issue, i, description, tailVars,
                   raw_data, catalog>>

\* line 31 raises: lines 52-54
SearchError ==
    /\ pc = "search_issues"
    /\ pc' = "main"
    /\ raw_data' = except_return(combined_data)
    /\ inflight' = inflight \ {"search_issues"}
    /\ calls' = Append(calls, "search_issues:error")
    /\ UNCHANGED <<collectVars, tailVars, catalog>>

\* lines 33-35
NoIssues ==
    /\ pc = "if_issues"
    /\ Len(issues) = 0
    /\ combined_data' = combined_data \o <<"", none_line(TARGET_KEYWORDS[kw])>>
    /\ kw' = kw + 1
    /\ pc' = "for_keyword"
    /\ UNCHANGED <<found_any_issue, issues, i, description, returned, tailVars,
                   raw_data, inflight, calls, catalog>>

\* lines 37-38
FoundIssues ==
    /\ pc = "if_issues"
    /\ Len(issues) > 0
    /\ found_any_issue' = TRUE
    /\ combined_data' = combined_data \o <<"", header_line(TARGET_KEYWORDS[kw], issues)>>
    /\ i' = 1
    /\ pc' = "for_issue"
    /\ UNCHANGED <<kw, issues, description, returned, tailVars, raw_data, inflight,
                   calls, catalog>>

\* lines 40-48: one issue
RenderIssue ==
    /\ pc = "for_issue"
    /\ ~issues_exhausted(i, issues)
    /\ description' = description_of(issues[i])
    /\ combined_data' = Append(combined_data, issue_line(issues[i]))
    /\ i' = i + 1
    /\ UNCHANGED <<pc, kw, found_any_issue, issues, returned, tailVars, raw_data,
                   inflight, calls, catalog>>

\* line 40: the issues are exhausted, on to the next keyword
EndIssues ==
    /\ pc = "for_issue"
    /\ issues_exhausted(i, issues)
    /\ kw' = kw + 1
    /\ pc' = "for_keyword"
    /\ UNCHANGED <<combined_data, found_any_issue, issues, i, description, returned,
                   tailVars, raw_data, inflight, calls, catalog>>

\* line 50, and line 180
ReturnCollected ==
    /\ pc = "for_keyword"
    /\ kw > Len(TARGET_KEYWORDS)
    /\ raw_data' = collect_return(found_any_issue, combined_data)
    /\ pc' = "main"
    /\ UNCHANGED <<collectVars, tailVars, inflight, calls, catalog>>

\* lines 182-191: summarise the corpus, or send the notice of line 191
MainRawData ==
    /\ pc = "main"
    /\ IF main_summarizes(raw_data)
          THEN /\ pc' = "summarize_with_gemini"
               /\ UNCHANGED message
          ELSE /\ pc' = "send_kakaowork_alert"
               /\ message' = NoDataNotice
    /\ UNCHANGED <<collectVars, model_name, summary, prompts, posted, raw_data,
                   inflight, calls, catalog>>

\* lines 92-97 and 63: no text, no summary; else the models are listed
ListModels ==
    /\ pc = "summarize_with_gemini"
    /\ IF ~Truthy(raw_data)
          THEN /\ summary' = NoneStr
               /\ pc' = "main_summary"
               /\ UNCHANGED <<inflight, calls>>
          ELSE /\ pc' = "list_models"
               /\ inflight' = inflight \cup {"list_models"}
               /\ calls' = Append(calls, "list_models")
               /\ UNCHANGED summary
    /\ UNCHANGED <<collectVars, model_name, message, prompts, posted, raw_data, catalog>>

\* lines 63-88: the listing ends or raises, and get_best_gemini_model returns
ListModelsReturn ==
    /\ pc = "list_models"
    /\ \E listing \in Listings :
           /\ model_name' = get_best_gemini_model(listing)
           /\ calls' = Append(calls, IF listing.raises THEN "list_models:error"
                                                       ELSE "list_models:ok")
    /\ pc' = "if_model_name"
    /\ inflight' = inflight \ {"list_models"}
    /\ UNCHANGED <<collectVars, summary, message, prompts, posted, raw_data, catalog>>

\* lines 100-121: no model, no summary; else generate_content is called
CheckModel ==
    /\ pc = "if_model_name"
    /\ IF ~Truthy(model_name)
          THEN /\ summary' = NoneStr
               /\ pc' = "main_summary"
               /\ UNCHANGED <<inflight, calls, prompts>>
          ELSE /\ pc' = "generate_content"
               /\ inflight' = inflight \cup {"generate_content"}
               /\ calls' = Append(calls, "generate_content")
               /\ prompts' = Append(prompts, raw_data.val)
               /\ UNCHANGED summary
    /\ UNCHANGED <<collectVars, model_name, message, posted, raw_data, catalog>>

\* lines 121-122
GenerateOk ==
    /\ pc = "generate_content"
    /\ \E text \in ResponseTexts : summary' = Some(text)
    /\ pc' = "main_summary"
    /\ inflight' = inflight \ {"generate_content"}
    /\ calls' = Append(calls, "generate_content:ok")
    /\ UNCHANGED <<collectVars, model_name, message, prompts, posted, raw_data, catalog>>

\* lines 124-126
GenerateError ==
    /\ pc = "generate_content"
    /\ summary' = generate_except_return
    /\ pc' = "main_summary"
    /\ inflight' = inflight \ {"generate_content"}
    /\ calls' = Append(calls, "generate_content:error")
    /\ UNCHANGED <<collectVars, model_name, message, prompts, posted, raw_data, catalog>>

\* lines 186-188
MainSummary ==
    /\ pc = "main_summary"
    /\ IF main_notifies(summary)
          THEN /\ pc' = "send_kakaowork_alert"
               /\ message' = summary.val
          ELSE /\ pc' = "done"
               /\ UNCHANGED message
    /\ UNCHANGED <<collectVars, model_name, summary, prompts, posted, raw_data,
                   inflight, calls, catalog>>

\* lines 130-170: nothing to send, or the payload is POSTed
Post ==
    /\ pc = "send_kakaowork_alert"
    /\ IF alert_posts(message)
          THEN /\ pc' = "post"
               /\ inflight' = inflight \cup {"post"}
               /\ calls' = Append(calls, "post")
               /\ posted' = Append(posted, message)
          ELSE /\ pc' = "done"
               /\ UNCHANGED <<inflight, calls, posted>>
    /\ UNCHANGED <<collectVars, model_name, summary, message, prompts, raw_data, catalog>>

\* lines 170-172
PostOk ==
    /\ pc = "post"
    /\ pc' = "done"
    /\ inflight' = inflight \ {"post"}
    /\ calls' = Append(calls, "post:ok")
    /\ UNCHANGED <<collectVars, tailVars, raw_data, catalog>>

\* lines 173-174
PostError ==
    /\ pc = "post"
    /\ pc' = "done"
    /\ inflight' = inflight \ {"post"}
    /\ calls' = Append(calls, "post:error")
    /\ UNCHANGED <<collectVars, tailVars, raw_data, catalog>>

Next ==
    \/ Connect \/ ConnectOk \/ ConnectError
    \/ SearchIssues \/ SearchOk \/ SearchError
    \/ NoIssues \/ FoundIssues \/ RenderIssue \/ EndIssues \/ ReturnCollected
    \/ MainRawData \/ ListModels \/ ListModelsReturn \/ CheckModel
    \/ GenerateOk \/ GenerateError \/ MainSummary
    \/ Post \/ PostOk \/ PostError

Spec == Init /\ [][Next]_vars

(***************************************************************************)
(* get_best_gemini_model alone, over every listing of the bounds: the      *)
(* script has collected a corpus and list_models is in flight; the listing *)
(* it yields is the catalog.                                               *)
(***************************************************************************)
SelectCorpus ==
    <<"", header_line(TARGET_KEYWORDS[1], <<IssueBare>>), issue_line(IssueBare),
      "", none_line(TARGET_KEYWORDS[2]), "", none_line(TARGET_KEYWORDS[3])>>

InitSelect ==
    /\ pc = "list_models"
    /\ kw = Len(TARGET_KEYWORDS) + 1
    /\ combined_data = SelectCorpus
    /\ found_any_issue = TRUE
    /\ issues = <<>>
    /\ i = 2
    /\ description = description_of(IssueBare)
    /\ raw_data = collect_return(TRUE, SelectCorpus)
    /\ model_name = NoneStr
    /\ summary = NoneStr
    /\ message = ""
    /\ inflight = {"list_models"}
    /\ calls = <<"JIRA", "JIRA:ok", "search_issues", "search_issues:ok",
                 "search_issues", "search_issues:ok", "search_issues",
                 "search_issues:ok", "list_models">>
    /\ returned = <<<<IssueBare>>, <<>>, <<>>>>
    /\ prompts = <<>>
    /\ posted = <<>>
    /\ catalog \in Listings

\* lines 63-88, the listing being the catalog
SelectModel ==
    /\ pc = "list_models"
    /\ model_name' = get_best_gemini_model(catalog)
    /\ calls' = Append(calls, IF catalog.raises THEN "list_models:error"
                                                ELSE "list_models:ok")
    /\ pc' = "if_model_name"
    /\ inflight' = inflight \ {"list_models"}
    /\ UNCHANGED <<collectVars, summary, message, prompts, posted, raw_data, catalog>>

NextSelect == SelectModel \/ CheckModel

SpecSelect == InitSelect /\ [][NextSelect]_vars

(***************************************************************************)
(* Reading the corpus back: its section lines and its record lines.        *)
(***************************************************************************)
StartsWith(p, s) == Len(p) <= Len(s) /\ SubSeq(s, 1, Len(p)) = p

EndsWith(p, s) == Len(p) <= Len(s) /\ SubSeq(s, Len(s) - Len(p) + 1, Len(s)) = p

\* the place of the first c in s at or after k, 0 when there is none
RECURSIVE IndexFrom(_, _, _)
IndexFrom(c, s, k) ==
    IF k > Len(s) THEN 0
    ELSE IF SubSeq(s, k, k) = c THEN k
    ELSE IndexFrom(c, s, k + 1)

IndexOf(c, s) == IndexFrom(c, s, 1)

\* the text of s between the first a and the first b
Between(a, b, s) == SubSeq(s, IndexOf(a, s) + 1, IndexOf(b, s) - 1)

IsSectionLine(l) == StartsWith("=== [", l) /\ EndsWith(" ===", l)

IsRecordLine(l) == StartsWith("- [", l)

\* a section line that states no count
IsNoResultsLine(l) == IsSectionLine(l) /\ IndexOf("(", l) = 0

\* the places of the section lines of a text at or after k, in order
RECURSIVE SectionPlacesFrom(_, _)
SectionPlacesFrom(text, k) ==
    IF k > Len(text) THEN <<>>
    ELSE (IF IsSectionLine(text[k]) THEN <<k>> ELSE <<>>)
         \o SectionPlacesFrom(text, k + 1)

SectionPlaces(text) == SectionPlacesFrom(text, 1)

\* the record lines under the n-th section line of a text, given the places of
\* its section lines
RecordLines(text, places, n) ==
    LET from == places[n] + 1
        to == IF n < Len(places) THEN places[n + 1] - 1 ELSE Len(text)
    IN  SelectSeq(SubSeq(text, from, to), IsRecordLine)

\* all the record lines of a text
AllRecordLines(text) == SelectSeq(text, IsRecordLine)

RECURSIVE SumLen(_)
SumLen(results) == IF results = <<>> THEN 0 ELSE Len(Head(results)) + SumLen(Tail(results))

(***************************************************************************)
(* What a run has done so far.                                             *)
(***************************************************************************)
Called(name) == \E k \in 1..Len(calls) : calls[k] = name

\* get_jira_issues_by_keyword has returned
CollectDone ==
    pc \notin {"start", "JIRA", "for_keyword", "search_issues", "if_issues", "for_issue"}

\* the tracker connection or a search raised
CollectionFailed == Called("JIRA:error") \/ Called("search_issues:error")

\* every keyword was searched without error and none had a record
NoData ==
    /\ CollectDone
    /\ ~CollectionFailed
    /\ \A k \in 1..Len(returned) : returned[k] = <<>>

\* summarize_with_gemini was entered, or one of its calls was made
SummarizeEntered ==
    \/ pc \in {"summarize_with_gemini", "list_models", "if_model_name",
               "generate_content", "main_summary"}
    \/ Called("list_models")
    \/ Called("generate_content")
    \/ prompts # <<>>

\* no usable model, generate_content raised, or the response text is empty
SummarizationFailed ==
    \/ Called("list_models:ok") /\ ~Truthy(model_name)
    \/ Called("generate_content:error")
    \/ Called("generate_content:ok") /\ ~summary.isNone /\ summary.val = ""

\* every result returned so far is in the corpus: its section and its records
Consumed ==
    /\ Len(SectionPlaces(combined_data)) = Len(returned)
    /\ Len(AllRecordLines(combined_data)) = SumLen(returned)

(***************************************************************************)
(* The claims.                                                             *)
(***************************************************************************)

\* C1, as stated: in a run whose aggregation ends with NoData, neither the
\* summarization nor the notification is invoked.
C1_NoDataShortCircuitsAll ==
    NoData => ~SummarizeEntered /\ ~Called("post") /\ posted = <<>>

\* C1, amended: in a run whose aggregation ends with NoData the summarization is
\* never invoked, and the one notification made is the fixed no-data notice of
\* line 191: the run ends having POSTed exactly that notice.
C1_NoDataSkipsSummaryOnly ==
    NoData =>
        /\ ~SummarizeEntered
        /\ Len(posted) <= 1
        /\ \A k \in 1..Len(posted) : posted[k] = NoDataNotice
        /\ pc = "done" => posted = <<NoDataNotice>>

C1_Witness == NoData /\ pc = "done" /\ posted = <<NoDataNotice>>

\* C2: in a run in which JIRA(...) or search_issues raises, neither the
\* summarization nor the webhook POST is executed.
C2_FailureSendsNothing ==
    CollectionFailed => ~SummarizeEntered /\ ~Called("post") /\ posted = <<>>

\* C3: when no search fails, get_jira_issues_by_keyword returns None exactly when
\* every keyword's result is empty, and otherwise the whole corpus, non-empty,
\* with a section for every keyword.
C3_NoneIffAllEmpty ==
    CollectDone /\ ~CollectionFailed =>
        /\ Len(returned) = Len(TARGET_KEYWORDS)
        /\ raw_data.isNone <=> \A k \in 1..Len(returned) : returned[k] = <<>>
        /\ ~raw_data.isNone =>
               /\ Len(raw_data.val) > 0
               /\ raw_data.val = combined_data
               /\ Len(SectionPlaces(raw_data.val)) = Len(TARGET_KEYWORDS)

C3_Witness ==
    /\ pc = "main"
    /\ ~CollectionFailed
    /\ raw_data.isNone
    /\ Len(SectionPlaces(combined_data)) = Len(TARGET_KEYWORDS)

\* C4: once a search has raised, no corpus is returned, the sections collected
\* before it never reach generate_content, and no further search is issued.
C4_FailedSearchDiscardsAll ==
    \A k \in 1..Len(calls) :
        calls[k] = "search_issues:error" =>
            /\ CollectDone
            /\ raw_data.isNone
            /\ prompts = <<>>
            /\ ~SummarizeEntered
            /\ \A j \in (k + 1)..Len(calls) : calls[j] # "search_issues"

C4_Witness ==
    /\ Called("search_issues:error")
    /\ found_any_issue
    /\ Len(AllRecordLines(combined_data)) > 0
    /\ Len(returned) = Len(TARGET_KEYWORDS) - 1
    /\ pc = "done"

\* C5: in a run that collected a non-empty corpus and whose summarization failed
\* (no usable model, generate_content raised, empty response text), the webhook
\* POST is never executed.
C5_FailedSummaryNotPosted ==
    Truthy(raw_data) /\ SummarizationFailed =>
        /\ ~Called("post")
        /\ posted = <<>>
        /\ pc # "send_kakaowork_alert"

C5_Witness ==
    /\ pc = "done"
    /\ Truthy(raw_data)
    /\ Called("generate_content:ok")
    /\ ~summary.isNone /\ summary.val = ""

\* C6: a returned corpus has exactly one section per keyword, in the order of the
\* keywords, each section line naming its keyword; a keyword without records has
\* the no-results section line and no record line.
C6_OneSectionPerKeyword ==
    ~raw_data.isNone /\ ~CollectionFailed =>
        LET text == raw_data.val
            places == SectionPlaces(text)
        IN  /\ Len(places) = Len(TARGET_KEYWORDS)
            /\ \A n \in 1..Len(places) :
                   /\ Between("[", "]", text[places[n]]) = TARGET_KEYWORDS[n]
                   /\ IsNoResultsLine(text[places[n]]) <=> returned[n] = <<>>
                   /\ returned[n] = <<>> => RecordLines(text, places, n) = <<>>

C6_Witness ==
    /\ pc = "main"
    /\ ~raw_data.isNone
    /\ returned[1] = <<>>
    /\ returned[2] # <<>>
    /\ returned[3] = <<>>

\* C7: in a returned corpus, the count a section line states is the number of
\* record lines under it, those lines are the returned records in the order the
\* search returned them, and the corpus has as many record lines as the searches
\* returned records.
C7_CountMatchesRecords ==
    ~raw_data.isNone /\ ~CollectionFailed =>
        LET text == raw_data.val
            places == SectionPlaces(text)
        IN  /\ Len(places) = Len(returned)
            /\ \A n \in 1..Len(places) :
                   returned[n] # <<>> =>
                       LET lines == RecordLines(text, places, n)
                       IN  /\ Between("(", ")", text[places[n]]) = ToString(Len(lines))
                           /\ Len(lines) = Len(returned[n])
                           /\ \A j \in 1..Len(lines) :
                                  StartsWith("- [" \o returned[n][j].key \o "] "
                                             \o returned[n][j].summary \o " (",
                                             lines[j])
            /\ Len(AllRecordLines(text)) = SumLen(returned)

\* the results 2, 0, 1: three sections and three record lines
C7_Witness ==
    /\ pc = "main"
    /\ ~raw_data.isNone
    /\ Len(returned) = 3
    /\ Len(returned[1]) = 2 /\ Len(returned[2]) = 0 /\ Len(returned[3]) = 1
    /\ Len(SectionPlaces(raw_data.val)) = 3
    /\ Len(AllRecordLines(raw_data.val)) = 3

\* C8: the record line of an issue with a body shows the body cut to the budget
\* and followed by the truncation marker when the body is longer than the budget,
\* and shows the body unmodified, without the marker, when it is not.
C8_TruncationLaw ==
    pc = "for_issue" /\ i > 1 /\ Truthy(issues[i - 1].description) =>
        LET body == issues[i - 1].description.val
            line == combined_data[Len(combined_data)]
        IN  IF Len(body) > DescBudget
                THEN /\ Contains(Slice(body, DescBudget) \o "...", line)
                     /\ ~Contains(Slice(body, DescBudget + 1), line)
                ELSE /\ Contains(body, line)
                     /\ ~Contains(body \o "...", line)

\* C9, as stated, in the runs without a tracker error: one call in flight at a
\* time, a search only after the earlier results were consumed, the summarization
\* only after the aggregation, the notification only after the summarization call
\* has completed.
C9_NotifyOnlyAfterSummary ==
    /\ Cardinality(inflight) <= 1
    /\ "search_issues" \in inflight => Consumed
    /\ (inflight \cap {"list_models", "generate_content"}) # {} =>
           CollectDone /\ Consumed /\ Len(returned) = Len(TARGET_KEYWORDS)
    /\ "post" \in inflight /\ ~CollectionFailed =>
           Called("generate_content:ok") \/ Called("generate_content:error")

\* C9, amended: one call in flight at a time; a search only after the earlier
\* results were consumed; the summarization calls only after the aggregation has
\* completed; the notification only after the aggregation has returned and only
\* after every summarization call made in the run has completed, and a run that
\* notifies without a summarization call is one that collected no corpus.
C9_StageOrder ==
    /\ Cardinality(inflight) <= 1
    /\ "search_issues" \in inflight => Consumed
    /\ (inflight \cap {"list_models", "generate_content"}) # {} =>
           CollectDone /\ Consumed /\ Len(returned) = Len(TARGET_KEYWORDS)
    /\ "post" \in inflight =>
           /\ CollectDone
           /\ Called("list_models") =>
                  Called("list_models:ok") \/ Called("list_models:error")
           /\ Called("generate_content") =>
                  Called("generate_content:ok") \/ Called("generate_content:error")
           /\ ~Called("generate_content") => raw_data.isNone

C9_Witness ==
    /\ "post" \in inflight
    /\ Called("generate_content:ok")
    /\ SumLen(returned) > 1

\* the eligible models of the catalog, by their place in the listing
EligibleAt(k) == "generateContent" \in catalog.models[k].supported_generation_methods

NamedAt(pat, k) == EligibleAt(k) /\ Contains(pat, catalog.models[k].name)

SomeNamed(pat) == \E k \in 1..Len(catalog.models) : NamedAt(pat, k)

IsFirstNamed(pat, r) ==
    \E k \in 1..Len(catalog.models) :
        /\ NamedAt(pat, k)
        /\ \A j \in 1..(k - 1) : ~NamedAt(pat, j)
        /\ r = Some(catalog.models[k].name)

\* C10: over the eligible models (those supporting generateContent), in listing
\* order, get_best_gemini_model returns the first with "gemini-1.5-flash" in its
\* name, else the first with "gemini-1.5-pro", else the first with "gemini-pro",
\* else the first eligible one; None only when the listing ends without an
\* eligible model; "models/gemini-pro" whenever the listing raises, and then
\* generate_content is still called.
C10_BestModel ==
    pc # "list_models" =>
        /\ IF catalog.raises THEN model_name = Some("models/gemini-pro")
           ELSE IF SomeNamed("gemini-1.5-flash")
               THEN IsFirstNamed("gemini-1.5-flash", model_name)
           ELSE IF SomeNamed("gemini-1.5-pro")
               THEN IsFirstNamed("gemini-1.5-pro", model_name)
           ELSE IF SomeNamed("gemini-pro")
               THEN IsFirstNamed("gemini-pro", model_name)
           ELSE IF SomeNamed("")
               THEN IsFirstNamed("", model_name)
           ELSE model_name.isNone
        /\ model_name.isNone <=> ~catalog.raises /\ ~SomeNamed("")
        /\ catalog.raises /\ pc # "if_model_name" =>
               pc = "generate_content" /\ prompts = <<raw_data.val>>

\* a 1.5-pro model listed before a 1.5-flash model: the flash model is returned
C10_Witness ==
    /\ pc = "if_model_name"
    /\ ~catalog.raises
    /\ Len(catalog.models) = 2
    /\ catalog.models[1].name = "models/gemini-1.5-pro"
    /\ catalog.models[2].name = "models/gemini-1.5-flash"
    /\ model_name = Some("models/gemini-1.5-flash")

====
